---- MODULE Spec2Model ----
(***************************************************************************)
(* url_text_fetcher_mcp.py: the two tools fetch_url_text and               *)
(* fetch_page_links, and the helper _clean_body.                            *)
(*                                                                         *)
(* A character string is a sequence of one-character strings.  A parsed    *)
(* document (the BeautifulSoup object) is a forest: the sequence of the     *)
(* root's children.  A node is a record                                     *)
(*   [kind, name, attrs, s, kids]                                           *)
(* kind "tag" (a Tag: name, attrs, kids), "str" (a NavigableString: s) or   *)
(* "comment" (a Comment: s).  attrs is a set of <<name, value>> pairs.      *)
(*                                                                         *)
(* The markup a server answers with is given as the tree html.parser builds *)
(* from it (Parseable); BeautifulSoup(html, "html.parser") hands each       *)
(* invocation a tree of its own.  Each invocation runs the statements of    *)
(* its tool one step at a time: Call, Get, Parse, then DecomposeNext*,      *)
(* Clean, Slice (fetch_url_text) or Collect (fetch_page_links), Return.     *)
(***************************************************************************)
EXTENDS Integers, Sequences

VARIABLES page, clients, pc, op, max_chars, attempts, error, resp, soup,
          cleaned, result

vars == <<page, clients, pc, op, max_chars, attempts, error, resp, soup,
          cleaned, result>>

(***************************************************************************)
(* Bounds of the model.                                                     *)
(***************************************************************************)
MaxNodes == 3
MaxBudget == 3
MaxTextLen == 4

(***************************************************************************)
(* Optional values: None is <<>>, a present value x is <<x>>.               *)
(***************************************************************************)
None == <<>>
Some(x) == <<x>>
Val(o) == o[1]

(***************************************************************************)
(* Character strings.                                                       *)
(***************************************************************************)
Whitespace == {" ", "\n"}
Chars == {"a", " ", "\n"}

Min(a, b) == IF a <= b THEN a ELSE b

\* str.strip() with no argument: drop leading and trailing whitespace.
RECURSIVE LStrip(_)
LStrip(s) ==
    IF s = <<>> \/ Head(s) \notin Whitespace THEN s ELSE LStrip(Tail(s))

RECURSIVE RStrip(_)
RStrip(s) ==
    IF s = <<>> \/ s[Len(s)] \notin Whitespace THEN s
    ELSE RStrip(SubSeq(s, 1, Len(s) - 1))

Strip(s) == RStrip(LStrip(s))

\* The length of the longest whitespace-free prefix of s.
RECURSIVE WordLen(_)
WordLen(s) ==
    IF s = <<>> \/ Head(s) \in Whitespace THEN 0 ELSE 1 + WordLen(Tail(s))

\* str.split() with no argument: the maximal whitespace-free words of s.
RECURSIVE Split(_)
Split(s) ==
    LET t == LStrip(s) IN
    IF t = <<>> THEN <<>>
    ELSE LET k == WordLen(t) IN
         <<SubSeq(t, 1, k)>> \o Split(SubSeq(t, k + 1, Len(t)))

\* " ".join(parts)
RECURSIVE Join(_)
Join(parts) ==
    IF parts = <<>> THEN <<>>
    ELSE IF Len(parts) = 1 THEN parts[1]
    ELSE parts[1] \o <<" ">> \o Join(Tail(parts))

\* A normalisation that only strips: cleaned.strip().
NormalizeStripOnly(s) == Strip(s)

\* The whitespace normalisation of _clean_body: " ".join(cleaned.split()).
Normalize(s) == Join(Split(s))

\* A slice one character too long: cleaned[:max_chars + 1].
TruncateOneMore(s, n) == SubSeq(s, 1, Min(n + 1, Len(s)))

\* A slice tidied after the cut: cleaned[:max_chars].rstrip().
TruncateTrimmed(s, n) == RStrip(SubSeq(s, 1, Min(n, Len(s))))

\* cleaned[:max_chars], for max_chars >= 0.
Truncate(s, n) == SubSeq(s, 1, Min(n, Len(s)))

(***************************************************************************)
(* Nodes and documents.                                                     *)
(***************************************************************************)
Tag(name, attrs, kids) ==
    [kind |-> "tag", name |-> name, attrs |-> attrs, s |-> <<>>, kids |-> kids]

Str(s) == [kind |-> "str", name |-> "", attrs |-> {}, s |-> s, kids |-> <<>>]

Comment(s) ==
    [kind |-> "comment", name |-> "", attrs |-> {}, s |-> s, kids |-> <<>>]

HasAttr(n, k) == \E p \in n.attrs : p[1] = k

Attr(n, k) == (CHOOSE p \in n.attrs : p[1] = k)[2]

\* tag.descendants: every node below the root, in document order.
RECURSIVE Descendants(_)
Descendants(f) ==
    IF f = <<>> THEN <<>>
    ELSE <<Head(f)>> \o Descendants(Head(f).kids) \o Descendants(Tail(f))

\* find_all(names): the tags with one of the names, in document order.
FindAll(f, names) ==
    SelectSeq(Descendants(f), LAMBDA n : n.kind = "tag" /\ n.name \in names)

\* The list with "nav" forgotten.
BoilerplateNoNav == {"script", "style", "noscript", "header", "footer"}

\* The tag names _clean_body drops.
Boilerplate == {"script", "style", "noscript", "header", "footer", "nav"}

\* element.unwrap() in place of decompose(): the element goes, what is
\* below it stays.
RECURSIVE Unwrap(_, _)
Unwrap(f, names) ==
    IF f = <<>> THEN <<>>
    ELSE LET h == Head(f) IN
         IF h.kind = "tag" /\ h.name \in names THEN h.kids \o Tail(f)
         ELSE IF FindAll(h.kids, names) # <<>>
              THEN <<[h EXCEPT !.kids = Unwrap(h.kids, names)]>> \o Tail(f)
              ELSE <<h>> \o Unwrap(Tail(f), names)

\* element.decompose() on the first element of find_all(names) still in the
\* tree: the element goes, with everything below it.
RECURSIVE Decompose(_, _)
Decompose(f, names) ==
    IF f = <<>> THEN <<>>
    ELSE LET h == Head(f) IN
         IF h.kind = "tag" /\ h.name \in names THEN Tail(f)
         ELSE IF FindAll(h.kids, names) # <<>>
              THEN <<[h EXCEPT !.kids = Decompose(h.kids, names)]>> \o Tail(f)
              ELSE <<h>> \o Decompose(Tail(f), names)

\* body = soup: the document, whether it has a <body> or not.
ScopeWholeDocument(f) == f

\* body = soup.body or soup: the children of the first <body> tag of the
\* document, or of the document when it has none (a Tag is always truthy).

Scope(f) ==
    LET bodies == FindAll(f, {"body"}) IN
    IF bodies # <<>> THEN bodies[1].kids ELSE f

\* body.stripped_strings: the NavigableStrings below the scope root, each
\* stripped, the empty ones skipped.  Comments are not of the yielded types.
RECURSIVE StripAll(_)
StripAll(nodes) ==
    IF nodes = <<>> THEN <<>>
    ELSE LET h == Head(nodes) IN
         IF h.s # <<>> /\ Strip(h.s) # <<>>
         THEN <<Strip(h.s)>> \o StripAll(Tail(nodes))
         ELSE StripAll(Tail(nodes))

StrippedStrings(f) ==
    StripAll(SelectSeq(Descendants(f), LAMBDA n : n.kind = "str"))

\* [a["href"] for a in ...]
RECURSIVE Hrefs(_)
Hrefs(tags) ==
    IF tags = <<>> THEN <<>>
    ELSE <<Attr(Head(tags), "href")>> \o Hrefs(Tail(tags))

\* q without the repeats of an earlier entry.
RECURSIVE Dedup(_)
Dedup(q) ==
    IF q = <<>> THEN <<>>
    ELSE LET r == Dedup(SubSeq(q, 1, Len(q) - 1)) IN
         IF \E k \in 1..Len(r) : r[k] = q[Len(q)] THEN r
         ELSE Append(r, q[Len(q)])

\* soup.find_all("a", href=True)
AnchorsWithHref(f) ==
    SelectSeq(FindAll(f, {"a"}), LAMBDA n : HasAttr(n, "href"))

\* The pruning loop of _clean_body run to its end.
RECURSIVE Pruned(_)
Pruned(f) ==
    IF FindAll(f, Boilerplate) = <<>> THEN f
    ELSE Pruned(Decompose(f, Boilerplate))

\* _clean_body(html), run on its own.
CleanBody(f) == Normalize(Join(StrippedStrings(Scope(Pruned(f)))))

\* The links with each href once.
LinksDeduplicated(f) == Dedup(Hrefs(AnchorsWithHref(f)))

\* The links of the document _clean_body leaves.
LinksAfterPruning(f) == Hrefs(AnchorsWithHref(Pruned(f)))

\* links = [a["href"] for a in soup.find_all("a", href=True)]
Links(f) == Hrefs(AnchorsWithHref(f))

(***************************************************************************)
(* The pages a server may hold, as bounded sets of documents.               *)
(***************************************************************************)
\* A tree of exactly n nodes, its tags drawn from E (<<name, attrs>> pairs)
\* and its leaves from E and T.
RECURSIVE TreesOf(_, _, _), ForestsOf(_, _, _)
TreesOf(n, E, T) ==
    IF n = 1 THEN T \cup {Tag(e[1], e[2], <<>>) : e \in E}
    ELSE {Tag(e[1], e[2], f) : e \in E, f \in ForestsOf(n - 1, E, T)}

ForestsOf(n, E, T) ==
    IF n = 0 THEN {<<>>}
    ELSE UNION {{<<t>> \o f : t \in TreesOf(k, E, T),
                              f \in ForestsOf(n - k, E, T)} : k \in 1..n}

DocsUpTo(n, E, T) == UNION {ForestsOf(k, E, T) : k \in 0..n}

\* A chain of exactly n nodes: each tag holds one child.
RECURSIVE ChainsOf(_, _, _)
ChainsOf(n, E, T) ==
    IF n = 1 THEN {<<t>> : t \in T}
    ELSE {<<Tag(e[1], e[2], c)>> : e \in E, c \in ChainsOf(n - 1, E, T)}

ChainsUpTo(n, E, T) == UNION {ChainsOf(k, E, T) : k \in 1..n}

Plain(names) == {<<x, {}>> : x \in names}

StringsUpTo(n) == UNION {[1..k -> Chars] : k \in 1..n}

\* What html.parser builds: a text run is not empty, and is one space or
\* one newline when it is all whitespace; two text runs are never siblings
\* next to each other; script and style hold text only; a void element
\* (link) holds nothing.
RECURSIVE Parseable(_)
Parseable(f) ==
    \A k \in 1..Len(f) :
        LET n == f[k] IN
        /\ n.kind = "str"
              => /\ n.s # <<>>
                 /\ (\A c \in 1..Len(n.s) : n.s[c] \in Whitespace) => Len(n.s) = 1
                 /\ k < Len(f) => f[k + 1].kind # "str"
        /\ (n.kind = "tag" /\ n.name \in {"script", "style"})
              => \A c \in 1..Len(n.kids) : n.kids[c].kind = "str"
        /\ (n.kind = "tag" /\ n.name = "link") => n.kids = <<>>
        /\ Parseable(n.kids)

\* Body, content and boilerplate tags around two text runs and a comment.
StructureDocs ==
    DocsUpTo(MaxNodes, Plain({"body", "p", "div", "nav"}),
             {Str(<<"a">>), Str(<<" ", "b", "\n">>)})

\* Every boilerplate tag, nested with a content tag, down to one text run.
NestingDocs ==
    ChainsUpTo(MaxNodes, Plain(Boilerplate \cup {"p"}),
               {Str(<<"a">>), Comment(<<"a">>)})

\* One text run of every string over Chars.
WhitespaceDocs == {<<Str(s)>> : s \in StringsUpTo(MaxTextLen)}

\* Anchors with and without href, in and out of a footer, and a <link href>.
LinkDocs ==
    DocsUpTo(MaxNodes,
             {<<"a", {<<"href", "/x">>}>>, <<"a", {<<"href", "">>}>>,
              <<"a", {}>>, <<"footer", {}>>, <<"link", {<<"href", "/x">>}>>},
             {})

Docs ==
    {d \in StructureDocs \cup NestingDocs \cup WhitespaceDocs \cup LinkDocs :
        Parseable(d)}

\* The pages of the concurrent runs: links and text in and out of boilerplate.
MixedPage ==
    <<Tag("nav", {}, <<Tag("a", {<<"href", "/x">>}, <<Str(<<"a", " ", "a">>)>>)>>),
      Tag("a", {<<"href", "/y">>}, <<Str(<<"a">>)>>)>>

ConcurrentDocs ==
    ChainsUpTo(MaxNodes, {<<"a", {<<"href", "/x">>}>>, <<"nav", {}>>},
               {Str(<<"a", " ", "a">>), Str(<<"b", "\n", "a", " ">>),
                Tag("a", {<<"href", "/y">>}, <<>>)})
    \cup {MixedPage}

\* HTTP status codes a server answers with.
Statuses == {200, 300, 404, 500}

\* A server: the status and the body it answers a GET with.
Servers(docs, small) ==
    {[status |-> 200, text |-> d] : d \in docs}
    \cup {[status |-> st, text |-> d] : st \in Statuses, d \in small}

(***************************************************************************)
(* The tools.                                                               *)
(***************************************************************************)
Clients == {1, 2}

Ops == {"fetch_url_text", "fetch_page_links"}

\* UrlArg.MAX_CHARS, the default of max_chars.
MAX_CHARS == 40000

\* max_chars: PositiveInt, given or defaulted.
Budgets == (1..MaxBudget) \cup {MAX_CHARS}

\* requests.get(...) raises these; raise_for_status() raises HTTPError.
NetworkErrors == {"ConnectionError", "Timeout"}

\* No status check at all.
RaiseForStatusNever(status) == FALSE

\* resp.raise_for_status(): an HTTPError for a 4xx or a 5xx status.

RaiseForStatus(status) == 400 <= status /\ status < 600

\* One tree kept for all invocations.
SoupShared(i) == 1

\* The tree object the local name soup of invocation i is bound to: each
\* call of BeautifulSoup(...) builds a tree of its own.

SoupOf(i) == i

TypeOK ==
    /\ clients \subseteq Clients
    /\ pc \in [Clients -> {"idle", "get", "parse", "prune", "slice",
                           "collect", "done", "raised"}]
    /\ op \in [Clients -> Ops]
    /\ max_chars \in [Clients -> Budgets]
    /\ attempts \in [Clients -> 0..1]
    /\ error \in [Clients -> NetworkErrors \cup {"HTTPError", ""}]
    /\ \A i \in Clients : Len(resp[i]) <= 1 /\ Len(soup[i]) <= 1
                          /\ Len(cleaned[i]) <= 1 /\ Len(result[i]) <= 1

InitLocals ==
    /\ pc = [i \in Clients |-> "idle"]
    /\ op = [i \in Clients |-> "fetch_url_text"]
    /\ max_chars = [i \in Clients |-> MAX_CHARS]
    /\ attempts = [i \in Clients |-> 0]
    /\ error = [i \in Clients |-> ""]
    /\ resp = [i \in Clients |-> None]
    /\ soup = [i \in Clients |-> None]
    /\ cleaned = [i \in Clients |-> None]
    /\ result = [i \in Clients |-> None]

\* One client calling the tools, one call after the other, on any page.
Init ==
    /\ page \in Servers(Docs, {<<Str(<<"a">>)>>})
    /\ clients = {1}
    /\ InitLocals

\* Two clients calling the tools concurrently.
InitConcurrent ==
    /\ page \in Servers(ConcurrentDocs, {})
    /\ clients = Clients
    /\ InitLocals

\* A tool is called with validated arguments (UrlArg).
Call(i) ==
    /\ i \in clients
    /\ pc[i] = "idle"
    /\ \E o \in Ops, m \in Budgets :
          /\ op' = [op EXCEPT ![i] = o]
          /\ max_chars' = [max_chars EXCEPT ![i] = m]
    /\ pc' = [pc EXCEPT ![i] = "get"]
    /\ UNCHANGED <<page, clients, attempts, error, resp, soup, cleaned, result>>

\* resp = requests.get(str(args.url), timeout=10); resp.raise_for_status();
\* html = resp.text
Get(i) ==
    /\ pc[i] = "get"
    /\ attempts' = [attempts EXCEPT ![i] = @ + 1]
    /\ \/ \E e \in NetworkErrors :
             /\ error' = [error EXCEPT ![i] = e]
             /\ pc' = [pc EXCEPT ![i] = "raised"]
             /\ UNCHANGED resp
       \/ /\ RaiseForStatus(page.status)
          /\ error' = [error EXCEPT ![i] = "HTTPError"]
          /\ pc' = [pc EXCEPT ![i] = "raised"]
          /\ UNCHANGED resp
       \/ /\ ~RaiseForStatus(page.status)
          /\ resp' = [resp EXCEPT ![i] = Some(page.text)]
          /\ pc' = [pc EXCEPT ![i] = "parse"]
          /\ UNCHANGED error
    /\ UNCHANGED <<page, clients, op, max_chars, soup, cleaned, result>>

\* soup = BeautifulSoup(html, "html.parser"), in _clean_body and in
\* fetch_page_links.
Parse(i) ==
    /\ pc[i] = "parse"
    /\ soup' = [soup EXCEPT ![SoupOf(i)] = Some(Val(resp[i]))]
    /\ pc' = [pc EXCEPT ![i] =
                 IF op[i] = "fetch_url_text" THEN "prune" ELSE "collect"]
    /\ UNCHANGED <<page, clients, op, max_chars, attempts, error, resp,
                   cleaned, result>>

\* One turn of the loop over soup.find_all([...]) that decomposes an element
\* still in the tree (a turn on an element that went with an enclosing one
\* changes nothing).
DecomposeNext(i) ==
    /\ pc[i] = "prune"
    /\ soup[SoupOf(i)] # None
    /\ FindAll(Val(soup[SoupOf(i)]), Boilerplate) # <<>>
    /\ soup' = [soup EXCEPT ![SoupOf(i)] =
                   Some(Decompose(Val(soup[SoupOf(i)]), Boilerplate))]
    /\ UNCHANGED <<page, clients, pc, op, max_chars, attempts, error, resp,
                   cleaned, result>>

\* The loop is over: body = soup.body or soup; the stripped strings joined
\* by a space; the whitespace normalisation.  cleaned = _clean_body(html).
Clean(i) ==
    /\ pc[i] = "prune"
    /\ soup[SoupOf(i)] # None
    /\ FindAll(Val(soup[SoupOf(i)]), Boilerplate) = <<>>
    /\ cleaned' = [cleaned EXCEPT ![i] =
          Some(Normalize(Join(StrippedStrings(Scope(Val(soup[SoupOf(i)]))))))]
    /\ pc' = [pc EXCEPT ![i] = "slice"]
    /\ UNCHANGED <<page, clients, op, max_chars, attempts, error, resp, soup,
                   result>>

\* result = cleaned[:args.max_chars]; return result
Slice(i) ==
    /\ pc[i] = "slice"
    /\ result' = [result EXCEPT ![i] = Some(Truncate(Val(cleaned[i]), max_chars[i]))]
    /\ pc' = [pc EXCEPT ![i] = "done"]
    /\ UNCHANGED <<page, clients, op, max_chars, attempts, error, resp, soup,
                   cleaned>>

\* links = [a["href"] for a in soup.find_all("a", href=True)]; return links
Collect(i) ==
    /\ pc[i] = "collect"
    /\ soup[SoupOf(i)] # None
    /\ result' = [result EXCEPT ![i] = Some(Links(Val(soup[SoupOf(i)])))]
    /\ pc' = [pc EXCEPT ![i] = "done"]
    /\ UNCHANGED <<page, clients, op, max_chars, attempts, error, resp, soup,
                   cleaned>>

\* The call has returned or raised: its locals are gone, and the client may
\* call again.
Return(i) ==
    /\ pc[i] \in {"done", "raised"}
    /\ pc' = [pc EXCEPT ![i] = "idle"]
    /\ op' = [op EXCEPT ![i] = "fetch_url_text"]
    /\ max_chars' = [max_chars EXCEPT ![i] = MAX_CHARS]
    /\ attempts' = [attempts EXCEPT ![i] = 0]
    /\ error' = [error EXCEPT ![i] = ""]
    /\ resp' = [resp EXCEPT ![i] = None]
    /\ soup' = [soup EXCEPT ![SoupOf(i)] = None]
    /\ cleaned' = [cleaned EXCEPT ![i] = None]
    /\ result' = [result EXCEPT ![i] = None]
    /\ UNCHANGED <<page, clients>>

Next ==
    \E i \in Clients :
        \/ Call(i)
        \/ Get(i)
        \/ Parse(i)
        \/ DecomposeNext(i)
        \/ Clean(i)
        \/ Slice(i)
        \/ Collect(i)
        \/ Return(i)

Spec == Init /\ [][Next]_vars

SpecConcurrent == InitConcurrent /\ [][Next]_vars

(***************************************************************************)
(* What the properties speak of, defined on the page as served.             *)
(***************************************************************************)
TextDone(i) == pc[i] = "done" /\ op[i] = "fetch_url_text"

LinksDone(i) == pc[i] = "done" /\ op[i] = "fetch_page_links"

BoilerplateTags == {"script", "style", "noscript", "header", "footer", "nav"}

IsBoilerplate(n) == n.kind = "tag" /\ n.name \in BoilerplateTags

IsBlank(s) == \A k \in 1..Len(s) : s[k] \in Whitespace

\* The document without the subtrees rooted at a boilerplate element.
RECURSIVE WithoutBoilerplate(_)
WithoutBoilerplate(f) ==
    IF f = <<>> THEN <<>>
    ELSE LET h == Head(f) IN
         IF IsBoilerplate(h) THEN WithoutBoilerplate(Tail(f))
         ELSE <<[h EXCEPT !.kids = WithoutBoilerplate(h.kids)]>>
              \o WithoutBoilerplate(Tail(f))

\* The document with every text run inside a boilerplate subtree emptied
\* (inside: below a boilerplate element, at any depth), all tags kept.
RECURSIVE EraseBoilerplateText(_, _)
EraseBoilerplateText(f, inside) ==
    IF f = <<>> THEN <<>>
    ELSE LET h == Head(f) IN
         LET in == inside \/ IsBoilerplate(h) IN
         <<[h EXCEPT !.s = IF inside /\ h.kind = "str" THEN <<>> ELSE h.s,
                     !.kids = EraseBoilerplateText(h.kids, in)]>>
         \o EraseBoilerplateText(Tail(f), inside)

\* The text runs (str nodes) of a forest, in document order.
RECURSIVE TextRuns(_)
TextRuns(f) ==
    IF f = <<>> THEN <<>>
    ELSE LET h == Head(f) IN
         (IF h.kind = "str" THEN <<h.s>> ELSE <<>>)
         \o TextRuns(h.kids) \o TextRuns(Tail(f))

\* The first body element of a forest in document order, as a forest of at
\* most one node.
RECURSIVE FirstBody(_)
FirstBody(f) ==
    IF f = <<>> THEN <<>>
    ELSE LET h == Head(f) IN
         IF h.kind = "tag" /\ h.name = "body" THEN <<h>>
         ELSE LET below == FirstBody(h.kids) IN
              IF below # <<>> THEN below ELSE FirstBody(Tail(f))

\* The scope root's children: the body's if a body remains, else the
\* document's.
ScopeRoot(f) == IF FirstBody(f) # <<>> THEN FirstBody(f)[1].kids ELSE f

\* The trimmed, non-empty text runs joined by single spaces.
RECURSIVE JoinTrimmed(_)
JoinTrimmed(runs) ==
    IF runs = <<>> THEN <<>>
    ELSE LET rest == JoinTrimmed(Tail(runs)) IN
         LET t == Strip(Head(runs)) IN
         IF t = <<>> THEN rest
         ELSE IF rest = <<>> THEN t ELSE t \o <<" ">> \o rest

NaturalText(f) == JoinTrimmed(TextRuns(ScopeRoot(WithoutBoilerplate(f))))

\* s with every whitespace run replaced by one space (s is trimmed).
RECURSIVE Collapsed(_)
Collapsed(s) ==
    IF Len(s) <= 1 THEN s
    ELSE IF s[1] \in Whitespace
         THEN IF s[2] \in Whitespace THEN Collapsed(Tail(s))
              ELSE <<" ">> \o Collapsed(Tail(s))
         ELSE <<s[1]>> \o Collapsed(Tail(s))

\* The href of every anchor that has one, in document order, each with
\* whether the anchor lies inside a boilerplate subtree.
RECURSIVE AnchorHrefs(_, _)
AnchorHrefs(f, inside) ==
    IF f = <<>> THEN <<>>
    ELSE LET h == Head(f) IN
         LET own == IF h.kind = "tag" /\ h.name = "a"
                       /\ (\E p \in h.attrs : p[1] = "href")
                    THEN <<[href |-> (CHOOSE p \in h.attrs : p[1] = "href")[2],
                            inside |-> inside]>>
                    ELSE <<>> IN
         own \o AnchorHrefs(h.kids, inside \/ IsBoilerplate(h))
             \o AnchorHrefs(Tail(f), inside)

\* The anchors of a forest without an href.
RECURSIVE BareAnchors(_)
BareAnchors(f) ==
    IF f = <<>> THEN 0
    ELSE LET h == Head(f) IN
         (IF h.kind = "tag" /\ h.name = "a" /\ h.attrs = {} THEN 1 ELSE 0)
         + BareAnchors(h.kids) + BareAnchors(Tail(f))

(***************************************************************************)
(* The properties.                                                          *)
(***************************************************************************)

\* C1: the string fetch_url_text returns is never longer than max_chars.
C1_LengthWithinBudget ==
    \A i \in Clients : TextDone(i) => Len(Val(result[i])) <= max_chars[i]

\* A call that cut the text: the cleaned text was longer than max_chars.
C1_Witness ==
    \E i \in Clients :
        /\ TextDone(i)
        /\ Len(Val(cleaned[i])) > max_chars[i]
        /\ Len(Val(result[i])) = max_chars[i]

\* C2: of two calls of fetch_url_text on the same page, the one with the
\* smaller max_chars N returns the first N characters of what the other
\* returns.
C2_RawSlice ==
    \A i, j \in Clients :
        (TextDone(i) /\ TextDone(j) /\ max_chars[i] <= max_chars[j])
            => Val(result[i])
                 = SubSeq(Val(result[j]), 1,
                          Min(max_chars[i], Len(Val(result[j]))))

\* Two calls with different budgets, the smaller one cut right after a
\* space, which it keeps.
C2_Witness ==
    \E i, j \in Clients :
        /\ TextDone(i) /\ TextDone(j)
        /\ max_chars[i] < max_chars[j]
        /\ Len(Val(result[j])) > max_chars[i]
        /\ Val(result[i])[Len(Val(result[i]))] = " "

\* C3: the text returned for a page is the text returned for the same page
\* with every text run inside a script, style, noscript, header, footer or
\* nav subtree emptied: such a run contributes nothing, at any depth.
C3_BoilerplatePruned ==
    \A i \in Clients :
        TextDone(i)
            => Val(result[i])
                 = Truncate(CleanBody(EraseBoilerplateText(page.text, FALSE)),
                            max_chars[i])

\* A text run in a nav inside a p, and one in a p inside a footer: neither
\* shows in the text returned.
C3_Witness ==
    \E i \in Clients :
        /\ TextDone(i)
        /\ page.text \in
              {<<Tag("p", {}, <<Tag("nav", {}, <<Str(<<"a">>)>>)>>)>>,
               <<Tag("footer", {}, <<Tag("p", {}, <<Str(<<"a">>)>>)>>)>>}
        /\ Val(result[i]) = <<>>

\* C4: fetch_page_links returns the href values of the anchors that have an
\* href, in document order, one entry each, unmodified, duplicates kept.
C4_LinksInOrder ==
    \A i \in Clients :
        LinksDone(i)
            => LET want == AnchorHrefs(page.text, FALSE) IN
               /\ Len(Val(result[i])) = Len(want)
               /\ \A k \in 1..Len(want) : Val(result[i])[k] = want[k].href

\* A page with the same href twice and an anchor without href between.
C4_Witness ==
    \E i \in Clients :
        /\ LinksDone(i)
        /\ Val(result[i]) = <<"/x", "/x">>
        /\ BareAnchors(page.text) > 0

\* C5: an anchor inside a boilerplate element contributes its href as any
\* other anchor does, at its place in document order.
C5_LinksNotPruned ==
    \A i \in Clients :
        LinksDone(i)
            => LET want == AnchorHrefs(page.text, FALSE) IN
               \A k \in 1..Len(want) :
                   want[k].inside
                       => /\ k <= Len(Val(result[i]))
                          /\ Val(result[i])[k] = want[k].href

\* An anchor in a footer after an anchor outside it: both hrefs returned.
C5_Witness ==
    \E i \in Clients :
        /\ LinksDone(i)
        /\ page.text =
              <<Tag("a", {<<"href", "">>}, <<>>),
                Tag("footer", {}, <<Tag("a", {<<"href", "/x">>}, <<>>)>>)>>
        /\ Val(result[i]) = <<"", "/x">>

\* The invocation made its retrieval attempt and the retrieval failed.
Tried(i) == attempts[i] >= 1

Ended(i) ==
    /\ pc[i] = "raised"
    /\ error[i] # ""
    /\ soup[i] = None /\ cleaned[i] = None /\ result[i] = None

OneAttemptResultOnlyAfterSuccess ==
    \A i \in Clients :
        /\ attempts[i] <= 1
        /\ pc[i] = "raised" => Ended(i)
        /\ result[i] # None => (pc[i] = "done" /\ error[i] = ""
                                /\ resp[i] # None /\ soup[i] # None)

\* C6 as stated: one attempt, never a retry; a retrieval that failed, a
\* non-success (not 2xx) status included, ends the invocation with the
\* error, nothing parsed and no result.
C6_AsStated ==
    /\ OneAttemptResultOnlyAfterSuccess
    /\ \A i \in Clients :
          (Tried(i) /\ ~(200 <= page.status /\ page.status < 300))
              => Ended(i)

\* C6, amended: the same, for a status from 400 to 599.
C6_ErrorStatusRaises ==
    /\ OneAttemptResultOnlyAfterSuccess
    /\ \A i \in Clients :
          (Tried(i) /\ 400 <= page.status /\ page.status < 600)
              => Ended(i) /\ error[i] \in NetworkErrors \cup {"HTTPError"}

\* A 404 answered: the invocation raised HTTPError after one attempt.
C6_Witness ==
    \E i \in Clients :
        /\ page.status = 404
        /\ pc[i] = "raised" /\ error[i] = "HTTPError"
        /\ attempts[i] = 1 /\ soup[i] = None /\ result[i] = None

\* A page with no body element and no text run outside boilerplate.
NoTextOutsideBoilerplate(f) ==
    /\ FirstBody(f) = <<>>
    /\ TextRuns(WithoutBoilerplate(f)) = <<>>

\* C7: a page with no body element and no text run outside boilerplate
\* gives the empty string for every max_chars, and a page with no anchor
\* gives the empty list; neither raises.
C7_DegenerateInput ==
    \A i \in Clients :
        /\ (TextDone(i) /\ NoTextOutsideBoilerplate(page.text))
              => Val(result[i]) = <<>>
        /\ (LinksDone(i) /\ FindAll(page.text, {"a"}) = <<>>)
              => Val(result[i]) = <<>>
        /\ (pc[i] = "raised") => resp[i] = None

\* A page whose only text is inside a nav, called with max_chars 1.
C7_Witness ==
    \E i \in Clients :
        /\ TextDone(i)
        /\ NoTextOutsideBoilerplate(page.text)
        /\ \E k \in 1..Len(TextRuns(page.text)) :
               ~IsBlank(TextRuns(page.text)[k])
        /\ FindAll(page.text, {"nav"}) # <<>>
        /\ max_chars[i] = 1
        /\ Val(result[i]) = <<>>

\* C8: the text before truncation has no whitespace but single spaces
\* between two other characters, and normalising it again changes nothing.
C8_Normalized ==
    \A i \in Clients :
        cleaned[i] # None
            => LET c == Val(cleaned[i]) IN
               /\ \A k \in 1..Len(c) :
                      c[k] \in Whitespace
                          => /\ c[k] = " "
                             /\ 1 < k /\ k < Len(c)
                             /\ c[k + 1] \notin Whitespace
               /\ Normalize(c) = c

\* A text run with a newline and a space between two letters, and a
\* trailing newline.
C8_Witness ==
    \E i \in Clients :
        /\ cleaned[i] = Some(<<"a", " ", "a">>)
        /\ page.text \in {<<Str(<<"a", "\n", " ", "a">>)>>,
                          <<Str(<<"a", "\n", "a", "\n">>)>>}

\* The locals of invocation i.
Locals(i) ==
    <<pc[i], op[i], max_chars[i], attempts[i], error[i], resp[i], soup[i],
      cleaned[i], result[i]>>

\* Each invocation has the result of running alone on the page with its own
\* max_chars, and a link collection reads the page as parsed.
AsRunAlone ==
    \A i \in Clients :
        /\ TextDone(i)
              => result[i] = Some(Truncate(CleanBody(page.text), max_chars[i]))
        /\ LinksDone(i) => result[i] = Some(Links(page.text))
        /\ pc[i] = "collect" => soup[i] = Some(page.text)

\* C9: under every interleaving each invocation returns what it returns
\* run alone on the page and its own max_chars, whatever the others prune,
\* and no step of one invocation changes a local of another.
C9_Independent ==
    /\ []AsRunAlone
    /\ [][\E i \in Clients :
             \A j \in Clients \ {i} : Locals(j)' = Locals(j)]_vars

\* Both clients are done on the mixed page, one with its text, the other
\* with its links, the link in the nav among them.
C9_Witness ==
    /\ page.text = MixedPage
    /\ TextDone(1) /\ LinksDone(2)
    /\ soup[1] # soup[2]
    /\ result[1] = Some(<<"a">>)
    /\ result[2] = Some(<<"/x", "/y">>)

====
